---- MODULE Spec2Model ----
(***************************************************************************)
(* Model of the data pipeline of gcn-lstm-time-series.ipynb: the cells     *)
(* train_test_split, scale_data, sequence_data_preparation, the rescaling  *)
(* cells, the naive benchmark and the performance-measures loop, run in    *)
(* notebook order.                                                         *)
(*                                                                         *)
(* Conventions.                                                            *)
(*  - A matrix of shape (N, T) is a sequence of N rows, each a sequence of *)
(*    T entries; Python column c is entry c + 1 of a row.                  *)
(*  - Raw speeds are integers.  A computed number is a pair <<n, d>>,      *)
(*    d >= 0: for d > 0 the fraction n/d in lowest terms, and the IEEE     *)
(*    specials <<1,0>> = +inf, <<-1,0>> = -inf, <<0,0>> = NaN, which is    *)
(*    what numpy yields on a division by zero (it warns, never raises).    *)
(*    Arithmetic is exact on fractions (no rounding).                      *)
(*  - A variable a cell has not assigned yet holds <<>>.                   *)
(***************************************************************************)
EXTENDS Integers, Sequences, FiniteSets, TLC

VARIABLES pc, err,
          speed_data, train_rate, seq_len, pre_len,
          train_data, test_data,
          train_scaled, test_scaled,
          trainX, trainY, testX, testY,
          ythat, yhat,
          max_speed, min_speed,
          train_rescref, test_rescref, train_rescpred, test_rescpred,
          testnpred, testnpredc,
          seg_mael, seg_masel, seg_nmael,
          total_mae, total_nmae, total_mase

vars == <<pc, err, speed_data, train_rate, seq_len, pre_len,
          train_data, test_data, train_scaled, test_scaled,
          trainX, trainY, testX, testY, ythat, yhat,
          max_speed, min_speed,
          train_rescref, test_rescref, train_rescpred, test_rescpred,
          testnpred, testnpredc,
          seg_mael, seg_masel, seg_nmael,
          total_mae, total_nmae, total_mase>>

(* ------------------------------ bounds -------------------------------- *)
MaxN == 2
MaxT == 9
MaxSeq == 3
MaxPre == 2

Unset == <<>>

(* ----------------------- numbers (numpy float64) ---------------------- *)
AbsInt(n) == IF n < 0 THEN -n ELSE n

RECURSIVE Gcd(_, _)
Gcd(a, b) == IF b = 0 THEN a ELSE Gcd(b, a % b)

NaN == <<0, 0>>
PInf == <<1, 0>>
NInf == <<-1, 0>>

Sign(n) == IF n > 0 THEN 1 ELSE IF n < 0 THEN -1 ELSE 0

\* the number n/d, d possibly 0 or negative, in canonical form
Frac(n, d) ==
    IF d = 0 THEN <<Sign(n), 0>>
    ELSE LET g == Gcd(AbsInt(n), AbsInt(d))
             s == IF d < 0 THEN -1 ELSE 1
         IN <<(s * n) \div g, (s * d) \div g>>

Num(k) == <<k, 1>>

IsNaN(a) == a = NaN
IsInf(a) == a[2] = 0 /\ a[1] # 0
IsFinite(a) == a[2] > 0

\* a + b: inf + (-inf) is NaN
FAdd(a, b) ==
    IF IsNaN(a) \/ IsNaN(b) THEN NaN
    ELSE IF IsInf(a) /\ IsInf(b) THEN (IF a = b THEN a ELSE NaN)
    ELSE IF IsInf(a) THEN a
    ELSE IF IsInf(b) THEN b
    ELSE Frac(a[1] * b[2] + b[1] * a[2], a[2] * b[2])

FNeg(a) == <<-a[1], a[2]>>

FSub(a, b) == FAdd(a, FNeg(b))

\* a * b: inf * 0 is NaN
FMul(a, b) ==
    IF IsNaN(a) \/ IsNaN(b) THEN NaN
    ELSE Frac(a[1] * b[1], a[2] * b[2])

\* a / b: x / 0 is +-inf for x # 0, 0 / 0 and inf / inf are NaN.  The zero
\* divisors of this program are differences max - min and sums of absolute
\* values, hence +0.0.
FDiv(a, b) ==
    IF IsNaN(a) \/ IsNaN(b) THEN NaN
    ELSE IF IsInf(a) /\ IsInf(b) THEN NaN
    ELSE IF IsInf(b) THEN Num(0)
    ELSE IF IsInf(a) THEN <<(IF b[1] < 0 THEN -1 ELSE 1) * a[1], 0>>
    ELSE Frac(a[1] * b[2], a[2] * b[1])

FAbs(a) == <<AbsInt(a[1]), a[2]>>

\* a <= b on non-NaN numbers
FLeq(a, b) ==
    IF IsFinite(a) /\ IsFinite(b) THEN a[1] * b[2] <= b[1] * a[2]
    ELSE IF a = NInf \/ b = PInf THEN TRUE
    ELSE FALSE

RECURSIVE FSum(_)
FSum(s) == IF s = <<>> THEN Num(0) ELSE FAdd(Head(s), FSum(Tail(s)))

\* np.mean of a 1-d array; the mean of an empty array is NaN (0.0 / 0)
NpMean(s) == FDiv(FSum(s), Num(Len(s)))

\* np.nanmean: the mean of the entries that are not NaN; NaN if there are none
NpNanMean(s) == NpMean(SelectSeq(s, LAMBDA v : ~IsNaN(v)))

(* ------------------------------ matrices ------------------------------ *)
Rows(m) == Len(m)
Cols(m) == IF Len(m) = 0 THEN 0 ELSE Len(m[1])

\* Python slice bounds: a negative index counts from the end, then both are
\* clamped to [0, len]
PyBound(k, len) ==
    LET n == IF k < 0 THEN k + len ELSE k
    IN IF n < 0 THEN 0 ELSE IF n > len THEN len ELSE n

\* m[:, start:stop]
ColSlice(m, start, stop) ==
    LET lo == PyBound(start, Cols(m))
        hi == PyBound(stop, Cols(m))
    IN [r \in 1..Rows(m) |-> SubSeq(m[r], lo + 1, hi)]

\* m[:, start:]
ColSliceFrom(m, start) == ColSlice(m, start, Cols(m))

\* m[:, -1]  (IndexError when m has no column; callers test Cols(m) first)
LastCol(m) == [r \in 1..Rows(m) |-> m[r][Cols(m)]]

\* the entries of a matrix
Entries(m) == {m[r][c] : r \in 1..Rows(m), c \in 1..Cols(m)}

MaxOf(S) == CHOOSE x \in S : \A y \in S : y <= x
MinOf(S) == CHOOSE x \in S : \A y \in S : x <= y

(* ------------------------------- inputs ------------------------------- *)
\* the speed of sensor r (0-based) at timestep c (0-based)
Speed(kind, base, r, c) ==
    CASE kind = "up"      -> base + r + c
      [] kind = "down"    -> base + r - c
      [] kind = "flat"    -> base
      [] kind = "rows"    -> base + r
      [] kind = "mixed"   -> base + r * c
      [] kind = "wave"    -> (base + r + c) % 3
      [] kind = "plateau" -> base + r + (IF c < 2 THEN c ELSE 2)

Kinds == {"up", "down", "flat", "rows", "mixed", "wave", "plateau"}

SpeedData(kind, base, n, t) ==
    [r \in 1..n |-> [c \in 1..t |-> Speed(kind, base, r - 1, c - 1)]]

TimeLens == (0..MaxT) \cup {15}

\* train_portion as a fraction <<num, den>> in (0, 1)
Portions == {<<3, 5>>, <<4, 5>>}

Init ==
    /\ pc = "loaded"
    /\ err = "none"
    /\ \E kind \in Kinds, base \in 0..1, n \in 1..MaxN, t \in TimeLens :
          speed_data = SpeedData(kind, base, n, t)
    /\ train_rate \in Portions
    /\ seq_len \in -1..MaxSeq
    /\ pre_len \in -1..MaxPre
    /\ train_data = Unset /\ test_data = Unset
    /\ train_scaled = Unset /\ test_scaled = Unset
    /\ trainX = Unset /\ trainY = Unset /\ testX = Unset /\ testY = Unset
    /\ ythat = Unset /\ yhat = Unset
    /\ max_speed = Unset /\ min_speed = Unset
    /\ train_rescref = Unset /\ test_rescref = Unset
    /\ train_rescpred = Unset /\ test_rescpred = Unset
    /\ testnpred = Unset /\ testnpredc = Unset
    /\ seg_mael = Unset /\ seg_masel = Unset /\ seg_nmael = Unset
    /\ total_mae = Unset /\ total_nmae = Unset /\ total_mase = Unset

(* --------------------------- train/test split ------------------------- *)
\* variant: the product rounded up instead of truncated
TrainSize_RoundUp(time_len, portion) ==
    (time_len * portion[1] + portion[2] - 1) \div portion[2]

\* int(time_len * train_portion): truncation of a non-negative product
TrainSize(time_len, portion) == (time_len * portion[1]) \div portion[2]

\* variant: the train slice runs one column into the test span
train_test_split_Overlap(data, portion) ==
    LET train_size == TrainSize(Cols(data), portion)
    IN [train |-> ColSlice(data, 0, train_size + 1),
        test  |-> ColSliceFrom(data, train_size)]

train_test_split(data, portion) ==
    LET train_size == TrainSize(Cols(data), portion)
    IN [train |-> ColSlice(data, 0, train_size),
        test  |-> ColSliceFrom(data, train_size)]

Split ==
    /\ pc = "loaded"
    /\ LET s == train_test_split(speed_data, train_rate)
       IN /\ train_data' = s.train
          /\ test_data' = s.test
    /\ pc' = "split"
    /\ UNCHANGED <<err, speed_data, train_rate, seq_len, pre_len,
                   train_scaled, test_scaled, trainX, trainY, testX, testY,
                   ythat, yhat, max_speed, min_speed,
                   train_rescref, test_rescref, train_rescpred, test_rescpred,
                   testnpred, testnpredc, seg_mael, seg_masel, seg_nmael,
                   total_mae, total_nmae, total_mase>>

(* ------------------------------- scaling ------------------------------ *)
\* variant: min_speed is not subtracted from the values
ScaleMatrix_NoShift(m, mn, mx) ==
    [r \in 1..Rows(m) |->
        [c \in 1..Cols(m) |-> FDiv(Num(m[r][c]), Num(mx - mn))]]

\* (x - min_speed) / (max_speed - min_speed), elementwise
ScaleMatrix(m, mn, mx) ==
    [r \in 1..Rows(m) |->
        [c \in 1..Cols(m) |-> FDiv(Num(m[r][c] - mn), Num(mx - mn))]]

\* variant: the test matrix is scaled with its own min and max (a refit)
scale_data_Refit(train, test) ==
    IF Entries(train) = {}
    THEN [status |-> "ValueError", train_scaled |-> Unset, test_scaled |-> Unset]
    ELSE LET mx == MaxOf(Entries(train))
             mn == MinOf(Entries(train))
         IN [status |-> "ok",
             train_scaled |-> ScaleMatrix(train, mn, mx),
             test_scaled  |-> IF Entries(test) = {} THEN test
                              ELSE ScaleMatrix(test, MinOf(Entries(test)),
                                               MaxOf(Entries(test)))]

\* ndarray.max() of an array without entries raises ValueError
scale_data(train, test) ==
    IF Entries(train) = {}
    THEN [status |-> "ValueError", train_scaled |-> Unset, test_scaled |-> Unset]
    ELSE LET mx == MaxOf(Entries(train))
             mn == MinOf(Entries(train))
         IN [status |-> "ok",
             train_scaled |-> ScaleMatrix(train, mn, mx),
             test_scaled  |-> ScaleMatrix(test, mn, mx)]

Scale ==
    /\ pc = "split"
    /\ LET s == scale_data(train_data, test_data)
       IN /\ train_scaled' = s.train_scaled
          /\ test_scaled' = s.test_scaled
          /\ pc' = IF s.status = "ok" THEN "scaled" ELSE "error"
          /\ err' = IF s.status = "ok" THEN err ELSE "scale_data: " \o s.status
    /\ UNCHANGED <<speed_data, train_rate, seq_len, pre_len,
                   train_data, test_data, trainX, trainY, testX, testY,
                   ythat, yhat, max_speed, min_speed,
                   train_rescref, test_rescref, train_rescpred, test_rescpred,
                   testnpred, testnpredc, seg_mael, seg_masel, seg_nmael,
                   total_mae, total_nmae, total_mase>>

(* ------------------------ sequence data preparation ------------------- *)
\* range(n): the number of iterations
RangeLen(n) == IF n < 0 THEN 0 ELSE n

\* variant: the slice is one column short, so the target is taken one step
\* before the horizon
Window_ShortHorizon(data, s, p, i) ==
    LET a == ColSlice(data, i, i + s + p - 1)
    IN [x |-> ColSlice(a, 0, s),
        y |-> IF Cols(a) = 0 THEN Unset ELSE LastCol(a),
        raises |-> Cols(a) = 0]

\* one iteration of a loop of sequence_data_preparation at start index i:
\*   a = data[:, i : i + seq_len + pre_len];  X gets a[:, :seq_len];
\*   Y gets a[:, -1], an IndexError when a has no column
Window(data, s, p, i) ==
    LET a == ColSlice(data, i, i + s + p)
    IN [x |-> ColSlice(a, 0, s),
        y |-> IF Cols(a) = 0 THEN Unset ELSE LastCol(a),
        raises |-> Cols(a) = 0]

\* the iterations of one loop, in loop order
Windows(data, s, p) ==
    [k \in 1..RangeLen(Cols(data) - (s + p - 1)) |-> Window(data, s, p, k - 1)]

\* np.array(list) stacks the list into one array along a new first axis (the
\* windows of one loop all have one shape); here the sequence of the
\* examples, and <<>> (shape (0,)) for an empty list
sequence_data_preparation(s, p, train, test) ==
    LET tr == Windows(train, s, p)
        te == Windows(test, s, p)
        none == [status |-> "ok", trainX |-> Unset, trainY |-> Unset,
                 testX |-> Unset, testY |-> Unset]
    IN IF \E k \in 1..Len(tr) : tr[k].raises THEN [none EXCEPT !.status = "IndexError"]
       ELSE IF \E k \in 1..Len(te) : te[k].raises THEN [none EXCEPT !.status = "IndexError"]
       ELSE [status |-> "ok",
             trainX |-> [k \in 1..Len(tr) |-> tr[k].x],
             trainY |-> [k \in 1..Len(tr) |-> tr[k].y],
             testX  |-> [k \in 1..Len(te) |-> te[k].x],
             testY  |-> [k \in 1..Len(te) |-> te[k].y]]

Prepare ==
    /\ pc = "scaled"
    /\ LET w == sequence_data_preparation(seq_len, pre_len, train_scaled, test_scaled)
       IN /\ trainX' = w.trainX
          /\ trainY' = w.trainY
          /\ testX' = w.testX
          /\ testY' = w.testY
          /\ pc' = IF w.status = "ok" THEN "prepared" ELSE "error"
          /\ err' = IF w.status = "ok" THEN err
                    ELSE "sequence_data_preparation: " \o w.status
    /\ UNCHANGED <<speed_data, train_rate, seq_len, pre_len,
                   train_data, test_data, train_scaled, test_scaled,
                   ythat, yhat, max_speed, min_speed,
                   train_rescref, test_rescref, train_rescpred, test_rescpred,
                   testnpred, testnpredc, seg_mael, seg_masel, seg_nmael,
                   total_mae, total_nmae, total_mase>>

(* ------------------------------ prediction ---------------------------- *)
\* The network (stellargraph's GCN_LSTM inside a Keras Model) is not part of
\* this notebook: it maps a tensor (batch, N, seq_len) to (batch, N).  Its
\* output is an input of the model, drawn from a few predictors.
Predictors == {"zero", "half", "exact"}

Prediction(kind, X, Y) ==
    [k \in 1..Len(X) |->
        [r \in 1..Rows(X[k]) |->
            CASE kind = "zero"  -> Num(0)
              [] kind = "half"  -> Frac(1, 2)
              [] kind = "exact" -> Y[k][r]]]

\* testX.shape[-1]
LastDim(X) == IF Len(X) = 0 THEN 0 ELSE Cols(X[1])

\* fit and predict need examples, of the input shape the network was built for
Predict ==
    /\ pc = "prepared"
    /\ Len(trainX) >= 1 /\ Len(testX) >= 1
    /\ seq_len >= 1
    /\ LastDim(trainX) = seq_len /\ LastDim(testX) = seq_len
    /\ \E kind \in Predictors :
          /\ ythat' = Prediction(kind, trainX, trainY)
          /\ yhat' = Prediction(kind, testX, testY)
    /\ pc' = "predicted"
    /\ UNCHANGED <<err, speed_data, train_rate, seq_len, pre_len,
                   train_data, test_data, train_scaled, test_scaled,
                   trainX, trainY, testX, testY, max_speed, min_speed,
                   train_rescref, test_rescref, train_rescpred, test_rescpred,
                   testnpred, testnpredc, seg_mael, seg_masel, seg_nmael,
                   total_mae, total_nmae, total_mase>>

(* ------------------------------- rescaling ---------------------------- *)
\* variant: max_speed is added instead of multiplied
Rescale_Added(a, mx) == [k \in 1..Len(a) |-> [r \in 1..Len(a[k]) |-> FAdd(a[k][r], Num(mx))]]

\* a * max_speed, elementwise on an array (examples, N)
Rescale(a, mx) == [k \in 1..Len(a) |-> [r \in 1..Len(a[k]) |-> FMul(a[k][r], Num(mx))]]

RescaleRef ==
    /\ pc = "predicted"
    /\ max_speed' = MaxOf(Entries(train_data))
    /\ min_speed' = MinOf(Entries(train_data))
    /\ train_rescref' = Rescale(trainY, max_speed')
    /\ test_rescref' = Rescale(testY, max_speed')
    /\ pc' = "rescaled_ref"
    /\ UNCHANGED <<err, speed_data, train_rate, seq_len, pre_len,
                   train_data, test_data, train_scaled, test_scaled,
                   trainX, trainY, testX, testY, ythat, yhat,
                   train_rescpred, test_rescpred,
                   testnpred, testnpredc, seg_mael, seg_masel, seg_nmael,
                   total_mae, total_nmae, total_mase>>

RescalePred ==
    /\ pc = "rescaled_ref"
    /\ train_rescpred' = Rescale(ythat, max_speed)
    /\ test_rescpred' = Rescale(yhat, max_speed)
    /\ pc' = "rescaled"
    /\ UNCHANGED <<err, speed_data, train_rate, seq_len, pre_len,
                   train_data, test_data, train_scaled, test_scaled,
                   trainX, trainY, testX, testY, ythat, yhat,
                   max_speed, min_speed, train_rescref, test_rescref,
                   testnpred, testnpredc, seg_mael, seg_masel, seg_nmael,
                   total_mae, total_nmae, total_mase>>

(* ---------------------------- naive benchmark ------------------------- *)
\* variant: the first value of each window, X[:, :, 0]
LastOfWindows_First(X) == [k \in 1..Len(X) |-> [r \in 1..Rows(X[k]) |-> X[k][r][1]]]

\* X[:, :, -1]
LastOfWindows(X) == [k \in 1..Len(X) |-> LastCol(X[k])]

NaiveBenchmark ==
    /\ pc = "rescaled"
    /\ testnpred' = LastOfWindows(testX)
    /\ testnpredc' = Rescale(testnpred', max_speed)
    /\ pc' = "naive"
    /\ UNCHANGED <<err, speed_data, train_rate, seq_len, pre_len,
                   train_data, test_data, train_scaled, test_scaled,
                   trainX, trainY, testX, testY, ythat, yhat,
                   max_speed, min_speed,
                   train_rescref, test_rescref, train_rescpred, test_rescpred,
                   seg_mael, seg_masel, seg_nmael,
                   total_mae, total_nmae, total_mase>>

(* -------------------------- performance measures ---------------------- *)
\* a.T[j] of an array a of shape (examples, N): the values of sensor j
SensorColumn(a, j) == [k \in 1..Len(a) |-> a[k][j + 1]]

\* np.mean(np.abs(a.T[j] - b.T[j]))
SensorMAE(a, b, j) ==
    LET x == SensorColumn(a, j)
        y == SensorColumn(b, j)
    IN NpMean([k \in 1..Len(x) |-> FAbs(FSub(x[k], y[k]))])

\* the number of passes of "for j in range(testX.shape[-1])"
LoopRange(X) == RangeLen(LastDim(X))

\* The loop and the prints after it.  Pass j reads row j of the transposed
\* arrays; a pass with j >= N raises IndexError, the lists keep what the
\* earlier passes appended and the totals are not computed.
PerformanceMeasures(X, ref, pred, npred) ==
    LET n     == Len(ref[1])
        pass  == LoopRange(X)
        done  == IF pass > n THEN n ELSE pass
        mael  == [j \in 1..done |-> SensorMAE(ref, pred, j - 1)]
        nmael == [j \in 1..done |-> SensorMAE(ref, npred, j - 1)]
        masel == [j \in 1..done |->
                    IF nmael[j] # Num(0) THEN FDiv(mael[j], nmael[j]) ELSE NaN]
        ok    == pass <= n
    IN [status |-> IF ok THEN "ok" ELSE "IndexError",
        seg_mael |-> mael, seg_nmael |-> nmael, seg_masel |-> masel,
        total_mae  |-> IF ok THEN NpMean(mael) ELSE Unset,
        total_nmae |-> IF ok THEN NpMean(nmael) ELSE Unset,
        total_mase |-> IF ok THEN NpNanMean(masel) ELSE Unset]

Measure ==
    /\ pc = "naive"
    /\ LET m == PerformanceMeasures(testX, test_rescref, test_rescpred, testnpredc)
       IN /\ seg_mael' = m.seg_mael
          /\ seg_nmael' = m.seg_nmael
          /\ seg_masel' = m.seg_masel
          /\ total_mae' = m.total_mae
          /\ total_nmae' = m.total_nmae
          /\ total_mase' = m.total_mase
          /\ pc' = IF m.status = "ok" THEN "measured" ELSE "error"
          /\ err' = IF m.status = "ok" THEN err
                    ELSE "performance measures: " \o m.status
    /\ UNCHANGED <<speed_data, train_rate, seq_len, pre_len,
                   train_data, test_data, train_scaled, test_scaled,
                   trainX, trainY, testX, testY, ythat, yhat,
                   max_speed, min_speed,
                   train_rescref, test_rescref, train_rescpred, test_rescpred,
                   testnpred, testnpredc>>

Next ==
    \/ Split
    \/ Scale
    \/ Prepare
    \/ Predict
    \/ RescaleRef
    \/ RescalePred
    \/ NaiveBenchmark
    \/ Measure

Spec == Init /\ [][Next]_vars

(* ============================== properties ============================ *)
\* seq_len and pre_len as the configuration surface requires them
ValidConfig == seq_len >= 1 /\ pre_len >= 1

\* scale_data has returned
ScaleReturned == pc \notin {"loaded", "split"} /\ err # "scale_data: ValueError"

\* sequence_data_preparation has been called (it returned or raised)
PrepareCalled == ScaleReturned /\ pc # "scaled"

\* sequence_data_preparation has returned its four arrays
PrepareReturned ==
    PrepareCalled /\ err # "sequence_data_preparation: IndexError"

\* X, Y are the sliding windows of the matrix m: one example per start index
\* i = k - 1, in increasing order of i, the input the columns [i, i + s) and
\* the target the column i + s + p - 1
WindowsAsSpecified(X, Y, m, s, p) ==
    /\ Len(X) = Cols(m) - (s + p - 1)
    /\ Len(Y) = Len(X)
    /\ \A k \in 1..Len(X) :
          /\ Rows(X[k]) = Rows(m)
          /\ Len(Y[k]) = Rows(m)
          /\ \A r \in 1..Rows(m) :
                /\ Len(X[k][r]) = s
                /\ \A c \in 1..s : X[k][r][c] = m[r][(k - 1) + c]
                /\ Y[k][r] = m[r][(k - 1) + s + p]

\* C1: for seq_len >= 1, pre_len >= 1 and a partition matrix with
\* T >= seq_len + pre_len columns, sequence_data_preparation returns exactly
\* T - (seq_len + pre_len - 1) examples for the partition, in increasing order
\* of the start index i, with X[i] the columns [i, i + seq_len) and Y[i] the
\* column i + seq_len + pre_len - 1 of the matrix, and as many targets as
\* inputs.
C1_WindowsExact ==
    (ValidConfig /\ PrepareCalled) =>
        /\ PrepareReturned
        /\ (Cols(train_scaled) >= seq_len + pre_len =>
              WindowsAsSpecified(trainX, trainY, train_scaled, seq_len, pre_len))
        /\ (Cols(test_scaled) >= seq_len + pre_len =>
              WindowsAsSpecified(testX, testY, test_scaled, seq_len, pre_len))

C1_Witness ==
    /\ pc = "prepared"
    /\ seq_len >= 2 /\ pre_len >= 2
    /\ Len(trainX) >= 3 /\ Len(testX) >= 2
    /\ Rows(train_scaled) >= 2
    /\ trainY[1] # trainY[2]

\* the training partition has entries, the largest and the smallest of them
HasTrain == train_data # Unset /\ Entries(train_data) # {}
TrainMax == MaxOf(Entries(train_data))
TrainMin == MinOf(Entries(train_data))

\* C3 (as claimed): a partition with fewer than seq_len + pre_len columns is
\* reported as InsufficientData; sequence_data_preparation never returns its
\* empty result as a plain success.
C3_InsufficientDataReported ==
    (ValidConfig /\ PrepareCalled
       /\ (\/ Cols(train_scaled) < seq_len + pre_len
           \/ Cols(test_scaled) < seq_len + pre_len))
    => (pc = "error" /\ err = "sequence_data_preparation: InsufficientData")

\* C4 (as claimed): on a constant training matrix scale_data fails with
\* DataDegenerate and returns no scaled matrix.
C4_DegenerateRejected ==
    (pc \notin {"loaded", "split"} /\ HasTrain /\ TrainMax = TrainMin)
    => (/\ pc = "error"
        /\ err = "scale_data: DataDegenerate"
        /\ train_scaled = Unset
        /\ test_scaled = Unset)

\* v is a number of the closed interval [0, 1]
InUnit(v) == IsFinite(v) /\ FLeq(Num(0), v) /\ FLeq(v, Num(1))

\* C5 (as claimed): with train max > min every value of train_scaled and of
\* test_scaled lies in [0, 1], whatever the test matrix holds.
C5_BothInUnit ==
    (ScaleReturned /\ HasTrain /\ TrainMax > TrainMin) =>
        /\ \A v \in Entries(train_scaled) : InUnit(v)
        /\ \A v \in Entries(test_scaled) : InUnit(v)

\* C5 (amended): with train max > min every value of train_scaled lies in
\* [0, 1], and a value of test_scaled lies in [0, 1] exactly when the test
\* value it is computed from lies between the train min and the train max.
C5_TrainInUnit ==
    (ScaleReturned /\ HasTrain /\ TrainMax > TrainMin) =>
        /\ Rows(train_scaled) = Rows(train_data)
        /\ Cols(train_scaled) = Cols(train_data)
        /\ \A v \in Entries(train_scaled) : InUnit(v)
        /\ Rows(test_scaled) = Rows(test_data)
        /\ Cols(test_scaled) = Cols(test_data)
        /\ LET mn == TrainMin
               mx == TrainMax
           IN \A r \in 1..Rows(test_data), c \in 1..Cols(test_data) :
                 InUnit(test_scaled[r][c]) <=>
                    (mn <= test_data[r][c] /\ test_data[r][c] <= mx)

C5_Witness ==
    /\ pc = "scaled"
    /\ TrainMax > TrainMin
    /\ \E v \in Entries(train_scaled) : v \notin {Num(0), Num(1)}
    /\ \E v \in Entries(test_scaled) : InUnit(v)
    /\ \E v \in Entries(test_scaled) : ~InUnit(v)

\* floor(t * portion), stated without the division of TrainSize
FloorOf(t, portion) ==
    CHOOSE k \in 0..t :
        k * portion[2] <= t * portion[1] /\ t * portion[1] < (k + 1) * portion[2]

\* the observation matrix scaled with the train min and max
ScaledObservations ==
    LET mn == TrainMin
        mx == TrainMax
    IN [r \in 1..Rows(speed_data) |->
          [c \in 1..Cols(speed_data) |->
              FDiv(Num(speed_data[r][c] - mn), Num(mx - mn))]]

\* C6: after train_test_split at column train_size and
\* sequence_data_preparation, every column of the observation matrix a train
\* example reads (its seq_len inputs and its target) has an index below
\* train_size, and every column a test example reads has an index from
\* train_size on.  Column indices are 0-based, example k starts at k - 1.
C6_NoStraddle ==
    (ValidConfig /\ PrepareReturned) =>
        LET train_size == FloorOf(Cols(speed_data), train_rate)
            obs        == ScaledObservations
            target(k)  == (k - 1) + seq_len + pre_len - 1
            input(k, c) == (k - 1) + (c - 1)
        IN /\ \A k \in 1..Len(trainX) :
                /\ target(k) < train_size
                /\ \A r \in 1..Rows(speed_data) :
                      /\ trainY[k][r] = obs[r][target(k) + 1]
                      /\ \A c \in 1..seq_len :
                            /\ input(k, c) < train_size
                            /\ trainX[k][r][c] = obs[r][input(k, c) + 1]
           /\ \A k \in 1..Len(testX) :
                /\ train_size + target(k) < Cols(speed_data)
                /\ \A r \in 1..Rows(speed_data) :
                      /\ testY[k][r] = obs[r][train_size + target(k) + 1]
                      /\ \A c \in 1..seq_len :
                            /\ train_size + input(k, c) >= train_size
                            /\ testX[k][r][c] =
                                  obs[r][train_size + input(k, c) + 1]

C6_Witness ==
    /\ pc = "prepared"
    /\ ValidConfig
    /\ Len(trainX) >= 1 /\ Len(testX) >= 1
    /\ TrainMax > TrainMin
    /\ trainY[Len(trainX)] = LastCol(ScaleMatrix(train_data, TrainMin, TrainMax))
    /\ testX[1][1][1] # trainY[Len(trainX)][1]

\* C9 (as claimed): with seq_len <= 0 or pre_len <= 0 the windowing call fails
\* (ConfigMismatch) before computing anything, so it never returns windowed
\* examples.
C9_ConfigRejected ==
    ((seq_len <= 0 \/ pre_len <= 0) /\ PrepareCalled)
    => ~(PrepareReturned /\ (Len(trainX) > 0 \/ Len(testX) > 0))

\* C10: train_test_split puts the first floor(T * train_portion) columns, in
\* their order, into the train matrix and the remaining columns, in their
\* order, into the test matrix, so every column is in exactly one of the two;
\* T = 15, train_portion = 0.6, seq_len = 3, pre_len = 2 gives 9 train and 6
\* test columns and then 5 train and 2 test examples.
C10_SplitExact ==
    pc # "loaded" =>
        LET T == Cols(speed_data)
        IN /\ Rows(train_data) = Rows(speed_data)
           /\ Rows(test_data) = Rows(speed_data)
           /\ Cols(train_data) = FloorOf(T, train_rate)
           /\ Cols(test_data) = T - FloorOf(T, train_rate)
           /\ \A r \in 1..Rows(speed_data) :
                 train_data[r] \o test_data[r] = speed_data[r]
           /\ (T = 15 /\ train_rate = <<3, 5>> /\ seq_len = 3 /\ pre_len = 2) =>
                 /\ Cols(train_data) = 9
                 /\ Cols(test_data) = 6
                 /\ PrepareCalled =>
                       /\ PrepareReturned
                       /\ Len(trainX) = 5 /\ Len(trainY) = 5
                       /\ Len(testX) = 2 /\ Len(testY) = 2

C10_Witness ==
    /\ pc = "prepared"
    /\ speed_data = SpeedData("up", 0, 2, 15)
    /\ train_rate = <<3, 5>> /\ seq_len = 3 /\ pre_len = 2
    /\ Len(trainX) = 5 /\ Len(testX) = 2

\* the performance-measures cell has run: to its end, or up to an IndexError
MeasureRaised == pc = "error" /\ err = "performance measures: IndexError"
MeasureCalled == pc = "measured" \/ MeasureRaised

\* the cell that rescales the true targets has run
RescaleRefDone == pc \in {"rescaled_ref", "rescaled", "naive", "measured"} \/ MeasureRaised

\* C2 (as claimed): the performance-measures loop leaves one model-MAE, one
\* naive-MAE and one scaled-error entry per sensor, N entries in each list,
\* whatever N and seq_len are.
C2_EntryPerSensor ==
    (ValidConfig /\ MeasureCalled) =>
        /\ pc = "measured"
        /\ Len(seg_mael) = Rows(speed_data)
        /\ Len(seg_nmael) = Rows(speed_data)
        /\ Len(seg_masel) = Rows(speed_data)

\* the MAE of the model and of the naive prediction for sensor j (0-based),
\* over all test examples
ModelMAE(j) == SensorMAE(test_rescref, test_rescpred, j)
NaiveMAE(j) == SensorMAE(test_rescref, testnpredc, j)

\* the ratios of the sensors whose naive MAE is a number other than zero
DefinedRatios ==
    LET all == [j \in 1..Rows(speed_data) |->
                  IF IsFinite(NaiveMAE(j - 1)) /\ NaiveMAE(j - 1) # Num(0)
                  THEN FDiv(ModelMAE(j - 1), NaiveMAE(j - 1)) ELSE NaN]
    IN SelectSeq(all, LAMBDA v : ~IsNaN(v))

\* C7 (as claimed): the loop raises no error; every sensor whose naive MAE is
\* exactly zero has a NaN entry in the per-sensor scaled-error list; the total
\* scaled error is the mean over the sensors with a defined ratio, and the
\* total model MAE is the plain mean of the model MAEs of all sensors.
C7_UndefinedRatioMarked ==
    (ValidConfig /\ MeasureCalled) =>
        /\ pc = "measured"
        /\ \A j \in 0..(Rows(speed_data) - 1) :
              NaiveMAE(j) = Num(0) =>
                 (j + 1 <= Len(seg_masel) /\ IsNaN(seg_masel[j + 1]))
        /\ total_mase = NpMean(DefinedRatios)
        /\ total_mae = NpMean([j \in 1..Rows(speed_data) |-> ModelMAE(j - 1)])

C7_HoldsWhenLoopCoversSensors ==
    (LastDim(testX) = Rows(speed_data)) => C7_UndefinedRatioMarked

\* the cells that rescale the predictions, and the naive benchmark, have run
RescalePredDone == pc \in {"rescaled", "naive", "measured"} \/ MeasureRaised
NaiveDone == pc \in {"naive", "measured"} \/ MeasureRaised

\* C11: min and max are those of the training partition and are never refit:
\* both partitions are scaled as (x - train min) / (train max - train min),
\* whatever the test matrix holds, and the max_speed by which the true
\* targets, the predictions and the naive predictions are multiplied for
\* reporting is that same train max.
C11_TrainParametersOnly ==
    LET mn == TrainMin
        mx == TrainMax
    IN
        /\ (ScaleReturned /\ HasTrain) =>
              /\ \A r \in 1..Rows(train_data), c \in 1..Cols(train_data) :
                    train_scaled[r][c] =
                       Frac(train_data[r][c] - mn, mx - mn)
              /\ \A r \in 1..Rows(test_data), c \in 1..Cols(test_data) :
                    test_scaled[r][c] =
                       Frac(test_data[r][c] - mn, mx - mn)
        /\ RescaleRefDone =>
              /\ max_speed = mx
              /\ min_speed = mn
              /\ \A k \in 1..Len(testY) : \A r \in 1..Len(testY[k]) :
                    test_rescref[k][r] = FMul(testY[k][r], Num(mx))
              /\ \A k \in 1..Len(trainY) : \A r \in 1..Len(trainY[k]) :
                    train_rescref[k][r] = FMul(trainY[k][r], Num(mx))
        /\ RescalePredDone =>
              /\ \A k \in 1..Len(yhat) : \A r \in 1..Len(yhat[k]) :
                    test_rescpred[k][r] = FMul(yhat[k][r], Num(mx))
              /\ \A k \in 1..Len(ythat) : \A r \in 1..Len(ythat[k]) :
                    train_rescpred[k][r] = FMul(ythat[k][r], Num(mx))
        /\ NaiveDone =>
              /\ \A k \in 1..Len(testnpred) : \A r \in 1..Len(testnpred[k]) :
                    testnpredc[k][r] = FMul(testnpred[k][r], Num(mx))

C11_Witness ==
    /\ pc = "naive"
    /\ TrainMax > TrainMin
    /\ MaxOf(Entries(test_data)) > TrainMax
    /\ MinOf(Entries(test_data)) > TrainMin
    /\ MaxOf(Entries(test_data)) > MinOf(Entries(test_data))
    /\ max_speed # 1
    /\ \E k \in 1..Len(yhat) : yhat[k][1] # Num(0) /\ test_rescpred[k][1] # yhat[k][1]

\* C13: for every test example k (0-based) and every sensor the naive
\* prediction is the last value of the example's input window, the scaled
\* value at column k + seq_len - 1 of the test partition, which lies pre_len
\* columns before the target column k + seq_len + pre_len - 1; it is rescaled
\* by the same multiplication by the train max as the true and model values.
C13_NaiveIsLastObserved ==
    (ValidConfig /\ NaiveDone) =>
        /\ Len(testnpred) = Len(testX)
        /\ Len(testnpredc) = Len(testX)
        /\ LET mx == TrainMax IN \A e \in 1..Len(testX) :
              LET k      == e - 1
                  last   == k + seq_len - 1
                  target == k + seq_len + pre_len - 1
              IN /\ target - last = pre_len
                 /\ Len(testnpred[e]) = Rows(test_scaled)
                 /\ \A r \in 1..Rows(test_scaled) :
                       /\ testnpred[e][r] = testX[e][r][seq_len]
                       /\ testnpred[e][r] = test_scaled[r][last + 1]
                       /\ testY[e][r] = test_scaled[r][target + 1]
                       /\ testnpredc[e][r] =
                             FMul(test_scaled[r][last + 1], Num(mx))
                       /\ test_rescref[e][r] = FMul(testY[e][r], Num(mx))
                       /\ test_rescpred[e][r] = FMul(yhat[e][r], Num(mx))

C13_Witness ==
    /\ pc = "naive"
    /\ seq_len >= 2 /\ pre_len >= 2
    /\ Len(testX) >= 2
    /\ Rows(test_scaled) >= 2
    /\ TrainMax > 1
    /\ testnpred[1][1] # testX[1][1][1]
    /\ testnpred[1][1] # testY[1][1]
    /\ testnpred[1] # testnpred[2]
    /\ testnpredc[2][2] # testnpred[2][2]

\* C12 (as claimed): every sensor has a model MAE, the mean over the test
\* examples of |true - model prediction|, a naive MAE, the mean of
\* |true - naive prediction|, and, where the naive MAE is not zero, the
\* scaled error model MAE / naive MAE.
C12_PerSensorErrors ==
    (ValidConfig /\ MeasureCalled) =>
        \A j \in 0..(Rows(speed_data) - 1) :
            /\ j + 1 <= Len(seg_mael)
            /\ j + 1 <= Len(seg_nmael)
            /\ j + 1 <= Len(seg_masel)
            /\ seg_mael[j + 1] = ModelMAE(j)
            /\ seg_nmael[j + 1] = NaiveMAE(j)
            /\ (NaiveMAE(j) # Num(0) =>
                  seg_masel[j + 1] = FDiv(ModelMAE(j), NaiveMAE(j)))

\* The entries the loop does append are the values C12 states, also in a run
\* that ends in the IndexError.
C12_HoldsForMeasuredSensors ==
    MeasureCalled =>
        \A j \in 0..(Len(seg_mael) - 1) :
            /\ seg_mael[j + 1] = ModelMAE(j)
            /\ seg_nmael[j + 1] = NaiveMAE(j)
            /\ (NaiveMAE(j) # Num(0) =>
                  seg_masel[j + 1] = FDiv(ModelMAE(j), NaiveMAE(j)))

(* ------------- the performance-measures cell on given arrays ---------- *)
\* The cell alone, on arrays of one sensor and three test examples around
\* true = [10, 20, 30]; testX only gives the loop its range.
EvalInit ==
    /\ pc = "naive"
    /\ err = "none"
    /\ speed_data = <<<<>>>>
    /\ train_rate \in {<<4, 5>>}
    /\ seq_len \in 1..2
    /\ pre_len = 1
    /\ testX = [k \in 1..3 |-> <<[c \in 1..seq_len |-> Num(0)]>>]
    /\ test_rescref = <<<<Num(10)>>, <<Num(20)>>, <<Num(30)>>>>
    /\ \E d \in [1..3 -> {-1, 1, 3}] :
          test_rescpred = [k \in 1..3 |-> <<FAdd(test_rescref[k][1], Num(d[k]))>>]
    /\ \E d \in [1..3 -> {-1, 0, 1}] :
          testnpredc = [k \in 1..3 |-> <<FAdd(test_rescref[k][1], Num(d[k]))>>]
    /\ train_data = Unset /\ test_data = Unset
    /\ train_scaled = Unset /\ test_scaled = Unset
    /\ trainX = Unset /\ trainY = Unset /\ testY = Unset
    /\ ythat = Unset /\ yhat = Unset
    /\ max_speed = Unset /\ min_speed = Unset
    /\ train_rescref = Unset /\ train_rescpred = Unset
    /\ testnpred = Unset
    /\ seg_mael = Unset /\ seg_masel = Unset /\ seg_nmael = Unset
    /\ total_mae = Unset /\ total_nmae = Unset /\ total_mase = Unset

EvalSpec == EvalInit /\ [][Measure]_vars

\* true = [10,20,30], model = [11,19,33], naive = [9,21,30]
EvalScenario ==
    /\ test_rescref = <<<<Num(10)>>, <<Num(20)>>, <<Num(30)>>>>
    /\ test_rescpred = <<<<Num(11)>>, <<Num(19)>>, <<Num(33)>>>>
    /\ testnpredc = <<<<Num(9)>>, <<Num(21)>>, <<Num(30)>>>>

\* On the arrays of the scenario the entries of the single sensor are 5/3,
\* 2/3 and 5/2; with one pass of the loop (testX.shape[-1] = 1) the cell
\* ends, with two it raises IndexError after appending them.
EvalScenarioValues ==
    (EvalScenario /\ MeasureCalled) =>
        /\ seg_mael = <<Frac(5, 3)>>
        /\ seg_nmael = <<Frac(2, 3)>>
        /\ seg_masel = <<Frac(5, 2)>>
        /\ (pc = "measured") <=> (seq_len = 1)
====
